---------------------------- MODULE Spec2Model ----------------------------
(***************************************************************************)
(* ifdyndnsd: the reconciler loop of src/lib.rs (run), the per-record      *)
(* state machine RecordState, and the query-then-update transaction        *)
(* sequence of dns::Server, as one state machine.                          *)
(*                                                                         *)
(* Time is wall-clock time in ticks, TicksPerSecond of them to a second    *)
(* (Instant; Duration::from_secs is from_secs).  Option<T> is a sequence   *)
(* of length 0 (None) or 1 (Some).  An IPv4 address is its four octets,    *)
(* an IPv6 address its eight 16-bit segments.                              *)
(***************************************************************************)
EXTENDS Integers, Sequences, FiniteSets, TLC

(***************************************************************************)
(* Program constants.                                                      *)
(***************************************************************************)
RETRY_INTERVAL == 60

IDLE_TIMEOUT == 1

NEVER_TIMEOUT == 31536000

DnsTimeout == 3

(***************************************************************************)
(* Bounds of the model.                                                    *)
(***************************************************************************)
\* what the environment may do in one run, counted together: events the
\* event source emits, UPDATE transactions that fail, DNS transactions that
\* run into the client's timeout
MaxBudget == 3

\* the resolution of the clock: the instants the model tells apart within a
\* second
TicksPerSecond == 2

\* Duration::from_secs, in ticks of the clock
from_secs(n) == n * TicksPerSecond


None == <<>>

Some(x) == <<x>>

Min(a, b) == IF a <= b THEN a ELSE b

Max(a, b) == IF a >= b THEN a ELSE b

RECURSIVE TwoToThe(_)
TwoToThe(n) == IF n = 0 THEN 1 ELSE 2 * TwoToThe(n - 1)

Pow2Table == [n \in 0..16 |-> TwoToThe(n)]

Pow2(n) == Pow2Table[n]

\* the clock's horizon: every retry the budget allows fits below it
Horizon ==
    (MaxBudget + 2) * (from_secs(RETRY_INTERVAL) + 3 * from_secs(DnsTimeout))

(***************************************************************************)
(* Addresses and CIDR scopes.                                              *)
(***************************************************************************)
IsV4(a) == Len(a) = 4

IsV6(a) == Len(a) = 8

\* width of one element of an address: an octet or a 16-bit segment
SegBits(a) == IF IsV4(a) THEN 8 ELSE 16

\* IpCidr::contains: same family, and the first cidr.len bits agree
Contains(cidr, a) ==
    /\ Len(cidr.net) = Len(a)
    /\ \A i \in 1..Len(a) :
          LET w == SegBits(a)
              covered == cidr.len - w * (i - 1)
              k == IF covered <= 0 THEN 0 ELSE Min(w, covered)
          IN  (a[i] \div Pow2(w - k)) = (cidr.net[i] \div Pow2(w - k))

A5 == <<203, 0, 113, 5>>

A6 == <<203, 0, 113, 6>>

\* 2001:db8:abcd:1::10
G10 == <<8193, 3512, 43981, 1, 0, 0, 0, 16>>

\* 2001:db8:abcd:2::10
G20 == <<8193, 3512, 43981, 2, 0, 0, 0, 16>>

\* fe80::1 (link-local)
LinkLocal == <<65152, 0, 0, 0, 0, 0, 0, 1>>

\* fd00::1 (unique local)
Ula == <<64768, 0, 0, 0, 0, 0, 0, 1>>

Addrs == {A5, A6, G10, G20, LinkLocal, Ula}

\* what the kernel may report: (interface, address)
KernelEvents ==
    {<<"eth0", A5>>, <<"eth0", A6>>, <<"eth0", G10>>,
     <<"wlan0", G10>>, <<"wlan0", G20>>, <<"wlan0", LinkLocal>>,
     <<"lo", A5>>}

DefaultScope(af) ==
    IF af = "IPv4"
    THEN [net |-> <<0, 0, 0, 0>>, len |-> 0]
    ELSE [net |-> <<8192, 0, 0, 0, 0, 0, 0, 0>>, len |-> 3]

(***************************************************************************)
(* The configuration: one [[a]] task and one [[aaaa]] task.                *)
(***************************************************************************)
Ifaces == {"eth0", "wlan0"}

\* an interface the kernel reports and no task names
AllIfaces == Ifaces \cup {"lo"}

RecordIds == 1..2

Task(r) ==
    CASE r = 1 -> [interface |-> "eth0", af |-> "IPv4",
                   name |-> Some("host.example."), scope |-> None,
                   neighbors |-> {}]
      [] r = 2 -> [interface |-> "wlan0", af |-> "IPv6",
                   name |-> Some("self.example."), scope |-> None,
                   neighbors |->
                      { <<"printer.example.", <<0, 0, 0, 1, 0, 0, 0, 66>> >>,
                        <<"nas.example.", <<65152, 0, 0, 0, 0, 0, 0, 67>> >> }]



\* RecordState::new: the scope setting, or the family's default
Scope(r) ==
    IF Task(r).scope = None THEN DefaultScope(Task(r).af) ELSE Task(r).scope[1]

\* RecordState::new: the fields a fresh record starts with
NewRecordState == [addr |-> None, dirty |-> FALSE, update_tried |-> None]

\* run: the RecordStates the loop starts with, as constructed from the tasks
LoopRecords ==
    [r \in RecordIds |->
       [af |-> Task(r).af, interface |-> Task(r).interface,
        name |-> Task(r).name, neighbors |-> Task(r).neighbors,
        scope |-> Scope(r), addr |-> NewRecordState.addr,
        dirty |-> NewRecordState.dirty,
        update_tried |-> NewRecordState.update_tried]]

(***************************************************************************)
(* RecordState: the synchronous operations.  A record state s is           *)
(* [addr, dirty, update_tried]; t is Instant::now().                       *)
(***************************************************************************)
\* a faulty set_address: the scope is not looked at
SetAddressAnyScope(s, scope, a) ==
    IF s.addr = Some(a)
    THEN [changed |-> FALSE, st |-> s]
    ELSE [changed |-> TRUE,
          st |-> [addr |-> Some(a), dirty |-> TRUE, update_tried |-> None]]

\* a faulty set_address: an address equal to the current one counts as new
SetAddressAlways(s, scope, a) ==
    IF ~Contains(scope, a)
    THEN [changed |-> FALSE, st |-> s]
    ELSE [changed |-> TRUE,
          st |-> [addr |-> Some(a), dirty |-> TRUE, update_tried |-> None]]

\* a faulty set_address: update_tried is left as it was
SetAddressKeepsTried(s, scope, a) ==
    IF ~Contains(scope, a)
    THEN [changed |-> FALSE, st |-> s]
    ELSE IF s.addr = Some(a)
    THEN [changed |-> FALSE, st |-> s]
    ELSE [changed |-> TRUE,
          st |-> [s EXCEPT !.addr = Some(a), !.dirty = TRUE]]

\* set_address: the record afterwards and the value returned
SetAddress(s, scope, a) ==
    IF ~Contains(scope, a)
    THEN [changed |-> FALSE, st |-> s]
    ELSE IF s.addr = Some(a)
    THEN [changed |-> FALSE, st |-> s]
    ELSE [changed |-> TRUE,
          st |-> [addr |-> Some(a), dirty |-> TRUE, update_tried |-> None]]

\* a faulty can_update: dirty is all it looks at
CanUpdateNoWait(s, t) == s.dirty

CanUpdate(s, t) ==
    IF ~s.dirty THEN FALSE
    ELSE IF s.update_tried = None THEN TRUE
    ELSE t >= s.update_tried[1] + from_secs(RETRY_INTERVAL)

NextTimeout(s, t) ==
    IF s.dirty
    THEN IF s.update_tried # None
         THEN Some(s.update_tried[1] + from_secs(RETRY_INTERVAL))
         ELSE Some(t)
    ELSE None

\* a faulty update: dirty is not cleared
BeginUpdateKeepsDirty(s, t) == [s EXCEPT !.update_tried = Some(t)]

\* a faulty update: the address is taken out of the record
BeginUpdateTakesAddr(s, t) ==
    [s EXCEPT !.dirty = FALSE, !.update_tried = Some(t), !.addr = None]

\* update, its first two statements
BeginUpdate(s, t) == [s EXCEPT !.dirty = FALSE, !.update_tried = Some(t)]

\* a faulty update: the error of the primary name is logged only
PrimaryErrorIgnored(s) == s

\* update, when update_addr of the primary name returned an error
OnPrimaryError(s) == [s EXCEPT !.dirty = TRUE]

\* a faulty update: the error of a neighbor marks the record dirty again
NeighborErrorDirties(s) == [s EXCEPT !.dirty = TRUE]

\* update, when update_addr of a neighbor returned an error: logged only
OnNeighborError(s) == s

\* a faulty update: no return after the error of the primary name
AllNeighbors(res, nbs) == nbs

\* update: the neighbors still to attempt once update_addr of the primary
\* name returned res, nbs being all the record's neighbors
NeighborsAfterPrimary(res, nbs) == IF res = "err" THEN <<>> ELSE nbs

\* a faulty update: the network half is taken from the template as well
NeighborAddrFromTemplate(addr, tmpl) ==
    <<tmpl[1], tmpl[2], tmpl[3], tmpl[4], tmpl[5], tmpl[6], tmpl[7], tmpl[8]>>

\* update: the address sent for a neighbor with template tmpl
NeighborAddr(addr, tmpl) ==
    <<addr[1], addr[2], addr[3], addr[4], tmpl[5], tmpl[6], tmpl[7], tmpl[8]>>

\* update_addr: A for an IPv4 address, AAAA for an IPv6 address
RecordType(a) == IF IsV4(a) THEN "A" ELSE "AAAA"

\* a faulty update_addr: the comparison with addr is inverted
NoChangeInverted(q, addr) == q.ok /\ Len(q.addrs) = 1 /\ q.addrs[1] # addr

\* a faulty update_addr: addr among the answers is enough
NoChangeIfAmong(q, addr) ==
    q.ok /\ \E i \in 1..Len(q.addrs) : q.addrs[i] = addr

\* update_addr: the query answered exactly [addr]
NoChange(q, addr) == q.ok /\ Len(q.addrs) = 1 /\ q.addrs[1] = addr

\* a faulty Server::update: the response code is not looked at
AnyResponseOk(rc) == rc # "transport"

\* Server::update: whether a transaction's outcome lets update go on
TransactionOk(rc) == rc = "NoError"

(***************************************************************************)
(* run: the helpers of the timeout branch.                                 *)
(***************************************************************************)
\* Instant - Instant saturates at zero (duration_since)
SatSub(a, b) == IF a >= b THEN a - b ELSE 0

\* records in the iteration order of iface_states: interfaces in the map's
\* order, the records of an interface in configuration order ([[a]] first)
RECURSIVE RecordsOf(_, _)
RecordsOf(iface, r) ==
    IF r \notin RecordIds THEN <<>>
    ELSE (IF Task(r).interface = iface THEN <<r>> ELSE <<>>)
         \o RecordsOf(iface, r + 1)

RECURSIVE RecordOrder(_)
RecordOrder(ifs) ==
    IF ifs = <<>> THEN <<>>
    ELSE RecordsOf(Head(ifs), 1) \o RecordOrder(Tail(ifs))

\* a faulty 'send_update loop: without the break, the record updated is the
\* last one that can_update()
RECURSIVE LastEligible(_, _, _)
LastEligible(ord, recs, t) ==
    IF ord = <<>> THEN None
    ELSE LET rest == LastEligible(Tail(ord), recs, t)
         IN  IF rest # None THEN rest
             ELSE IF CanUpdate(recs[Head(ord)], t) THEN Some(Head(ord))
             ELSE None

\* the 'send_update loop: the first record that can_update(), if any
RECURSIVE FirstEligible(_, _, _)
FirstEligible(ord, recs, t) ==
    IF ord = <<>> THEN None
    ELSE IF CanUpdate(recs[Head(ord)], t) THEN Some(Head(ord))
    ELSE FirstEligible(Tail(ord), recs, t)

\* a faulty loop: interval is never shrunk
ShrinkNever(iv, s, t) == iv

\* one record's step of the loop that shrinks interval
ShrinkInterval(iv, s, t) ==
    LET nt == NextTimeout(s, t) IN
    IF nt = None THEN iv
    ELSE IF nt[1] <= t THEN 0
    ELSE LET state_interval == SatSub(t, nt[1]) IN
         IF state_interval < iv THEN state_interval ELSE iv

RECURSIVE IntervalLoop(_, _, _, _)
IntervalLoop(ord, recs, t, iv) ==
    IF ord = <<>> THEN iv
    ELSE IntervalLoop(Tail(ord), recs, t, ShrinkInterval(iv, recs[Head(ord)], t))


(***************************************************************************)
(* State.                                                                  *)
(***************************************************************************)
VARIABLES
    now,         \* the clock: Instant::now()
    rec,         \* iface_states: RecordIds -> [addr, dirty, update_tried]
    interval,    \* run: the wait interval
    waitStart,   \* when the pending timeout(interval, recv()) was armed
    pc,          \* where the reconciler is: "recv", "query", "delete",
                 \* "append" (awaiting that answer), "finished", "panicked"
    cur,         \* Some(record whose update() is in flight)
    nbLeft,      \* update: the neighbors the loop has still to visit
    chan,        \* the event channel (capacity 1)
    closed,      \* every sender of the channel is dropped
    ifOrder,     \* iteration order of the iface_states map
    nbOrder,     \* iteration order of each record's neighbors map
    nEnv,        \* how much of MaxBudget the environment has used
    last,        \* history: the branch the loop took last
    updated,     \* history: the records update() was invoked on in the
                 \* latest timeout wake-up
    calls,       \* history: the update_addr calls of that update()
    ret,         \* history: what set_address returned for the latest event
    hist,        \* history, per record: its update attempts
    burst,       \* history, per record: how often the events of the latest
                 \* run of events, none separated by a timeout, changed it
    ev,          \* history: the event received last
    same,        \* history: that event repeats the one received just before
    lastIn,      \* history, per record: the last address received for its
                 \* interface that its scope contains
    lpc,         \* where the listener task is: "connect", "bind", "links",
                 \* "addrs", "send", "live" (ifaces::run), "dead"
    names,       \* ifaces::run: interface_names, link index -> name
    initial,     \* ifaces::run: the snapshot's events not yet sent
    seen,        \* history: the address message the listener handled last
    boot,        \* run before the loop: "loading", "running", "panicked"
    built,       \* run before the loop: the RecordStates constructed so far
    servers      \* run before the loop: the keys that have their Server

vars == <<now, rec, interval, waitStart, pc, cur, nbLeft, chan, closed,
          ifOrder, nbOrder, nEnv, last, updated, calls, ret,
          hist, burst, ev, same, lastIn, lpc, names, initial, seen, boot,
          built, servers>>

\* the listener's variables
lvars == <<lpc, names, initial, seen>>

\* the variables of run before its loop
cvars == <<boot, built, servers>>

Order == RecordOrder(ifOrder)

\* the iteration orders of the hash maps (iface_states, neighbors), fixed
\* when the maps are built: each map in either order
MapOrders ==
    { << <<"eth0", "wlan0">>,
         << <<>>, << <<"printer.example.", <<0, 0, 0, 1, 0, 0, 0, 66>> >>,
                     <<"nas.example.", <<65152, 0, 0, 0, 0, 0, 0, 67>> >> >> >> >>,
      << <<"wlan0", "eth0">>,
         << <<>>, << <<"nas.example.", <<65152, 0, 0, 0, 0, 0, 0, 67>> >>,
                     <<"printer.example.", <<0, 0, 0, 1, 0, 0, 0, 66>> >> >> >> >> }

\* tried: when update() was last invoked; retry: the update() before had
\* failed on the primary name and the address had not changed since; failed:
\* this update() failed on the primary name; nbfail: it failed on a neighbor;
\* changed: set_address changed the address since
NewHist == [tried |-> None, retry |-> FALSE, failed |-> FALSE,
            nbfail |-> FALSE, changed |-> FALSE]

\* the reconciler as its loop begins
InitLoop ==
    /\ now = 0
    /\ rec = [r \in RecordIds |-> NewRecordState]
    /\ interval = from_secs(NEVER_TIMEOUT)
    /\ waitStart = 0
    /\ pc = "recv"
    /\ cur = None
    /\ nbLeft = <<>>
    /\ chan = <<>>
    /\ closed = FALSE
    /\ \E o \in MapOrders : ifOrder = o[1] /\ nbOrder = o[2]
    /\ nEnv = 0
    /\ last = "init"
    /\ updated = <<>>
    /\ calls = <<>>
    /\ ret = [r \in RecordIds |-> FALSE]
    /\ hist = [r \in RecordIds |-> NewHist]
    /\ burst = [r \in RecordIds |-> 0]
    /\ ev = None
    /\ same = FALSE
    /\ lastIn = [r \in RecordIds |-> None]

\* the interfaces of the kernel: link index -> name
KernelLinks == (1 :> "eth0") @@ (2 :> "wlan0")

\* The listener is taken in its live loop, emitting whatever it may emit.
Init ==
    /\ InitLoop
    /\ boot = "running"
    /\ built = LoopRecords
    /\ servers = {"k1"}
    /\ lpc = "live"
    /\ names = KernelLinks
    /\ initial = <<>>
    /\ seen = None

(***************************************************************************)
(* The interface event source (ifaces::start), as the reconciler sees it.  *)
(***************************************************************************)
\* the instant the waiting reconciler next has something to do, were no
\* event to arrive: its deadline or, while it wakes over and over with a
\* zero interval, the instant a record is due
RECURSIVE EarliestDue(_, _, _)
EarliestDue(ord, recs, t) ==
    IF ord = <<>> THEN from_secs(NEVER_TIMEOUT)
    ELSE LET nt == NextTimeout(recs[Head(ord)], t)
             rest == EarliestDue(Tail(ord), recs, t)
         IN  IF nt = None THEN rest ELSE Min(nt[1], rest)

NextWake ==
    IF interval > 0 THEN Max(now, waitStart + interval)
    ELSE Max(now, EarliestDue(Order, rec, now))

\* tx.send((name, addr)): the listener emits an event
SourceSend(i, a) ==
    /\ pc \notin {"finished", "panicked"}
    /\ ~closed
    /\ chan = <<>>
    /\ nEnv < MaxBudget
    /\ chan' = <<[iface |-> i, addr |-> a]>>
    /\ nEnv' = nEnv + 1
    /\ UNCHANGED <<now, rec, interval, waitStart, pc, cur, nbLeft, closed,
                   ifOrder, nbOrder, last, updated, calls, ret, hist, burst,
                   ev, same, lastIn,
                   lvars, cvars>>

\* the listener task panics (bind fails): its Sender is dropped
SourceDie ==
    /\ pc = "recv"
    /\ ~closed
    /\ chan = <<>>
    /\ nEnv < MaxBudget
    /\ nEnv' = nEnv + 1
    /\ closed' = TRUE
    /\ UNCHANGED <<now, rec, interval, waitStart, pc, cur, nbLeft, chan,
                   ifOrder, nbOrder, last, updated, calls, ret, hist, burst,
                   ev, same, lastIn,
                   lvars, cvars>>


(***************************************************************************)
(* run: the reconciler loop.                                               *)
(***************************************************************************)
\* a faulty loop: a closed channel is taken for an empty one
RecvNeverClosed ==
    IF pc # "recv" THEN "busy"
    ELSE IF chan # <<>> THEN "event"
    ELSE "pending"

\* a faulty loop: update() runs as a task of its own, and the loop goes on
\* receiving meanwhile
RecvWhileBusy ==
    IF pc \in {"finished", "panicked"} THEN "busy"
    ELSE IF chan # <<>> THEN "event"
    ELSE IF closed THEN "closed"
    ELSE "pending"

\* what timeout(interval, addr_updates.recv()) has for the loop: nothing
\* while the loop is elsewhere ("busy"), else an event, else the end of a
\* closed channel, else the timeout once interval has passed ("pending")
Recv ==
    IF pc # "recv" THEN "busy"
    ELSE IF chan # <<>> THEN "event"
    ELSE IF closed THEN "closed"
    ELSE "pending"

\* a faulty event branch: a change makes the next wait end at once
NoDebounce(any, iv) == IF any THEN 0 ELSE iv

\* the event branch: interval after the set_address calls, any of which
\* returned true, or none
EventInterval(any, iv) == IF any THEN from_secs(IDLE_TIMEOUT) ELSE iv

\* Ok(Some((iface, addr))): set_address on every record of the interface
RecvEvent ==
    /\ Recv = "event"
    /\ LET e == chan[1]
           res == [r \in RecordIds |->
                     IF Task(r).interface = e.iface
                     THEN SetAddress(rec[r], Scope(r), e.addr)
                     ELSE [changed |-> FALSE, st |-> rec[r]]]
           any == \E r \in RecordIds : res[r].changed
       IN  /\ rec' = [r \in RecordIds |-> res[r].st]
           /\ ret' = [r \in RecordIds |-> res[r].changed]
           /\ interval' = EventInterval(any, interval)
           /\ hist' = [r \in RecordIds |->
                         IF res[r].changed
                         THEN [hist[r] EXCEPT !.changed = TRUE]
                         ELSE hist[r]]
           /\ burst' = [r \in RecordIds |->
                          (IF last = "event" THEN burst[r] ELSE 0)
                          + (IF res[r].changed THEN 1 ELSE 0)]
           /\ lastIn' = [r \in RecordIds |->
                           IF Task(r).interface = e.iface
                              /\ Contains(Scope(r), e.addr)
                           THEN Some(e.addr) ELSE lastIn[r]]
    /\ ev' = Some(chan[1])
    /\ same' = (last = "event" /\ ev = Some(chan[1]))
    /\ chan' = <<>>
    /\ waitStart' = now
    /\ last' = "event"
    /\ updated' = <<>>
    /\ calls' = <<>>
    /\ UNCHANGED <<now, pc, cur, nbLeft, closed, ifOrder, nbOrder, nEnv,
                   lvars, cvars>>

\* Ok(None): the channel is closed and empty
RecvClosed ==
    /\ Recv = "closed"
    /\ pc' = "finished"
    /\ UNCHANGED <<now, rec, interval, waitStart, cur, nbLeft, chan, closed,
                   ifOrder, nbOrder, nEnv, last, updated, calls,
                   ret, hist, burst,
                   ev, same, lastIn,
                   lvars, cvars>>

\* update_addr(name, addr) begins: the query is sent
NewCall(name, addr, primary) ==
    [name |-> name, addr |-> addr, rtype |-> RecordType(addr),
     primary |-> primary, sent |-> <<"QUERY">>, answer |-> "pending",
     result |-> None]

\* the end of the timeout branch: interval is shrunk and the loop waits again
Return(recs, cs, hs, t) ==
    /\ pc' = "recv"
    /\ rec' = recs
    /\ calls' = cs
    /\ hist' = hs
    /\ interval' = IntervalLoop(Order, recs, t, from_secs(NEVER_TIMEOUT))
    /\ waitStart' = t
    /\ now' = t
    /\ cur' = None
    /\ nbLeft' = <<>>

\* update of record r goes on with the neighbors nbs
Proceed(r, recs, cs, hs, nbs, t) ==
    IF nbs = <<>>
    THEN Return(recs, cs, hs, t)
    ELSE /\ pc' = "query"
         /\ rec' = recs
         /\ calls' = Append(cs, NewCall(nbs[1][1],
                                        NeighborAddr(recs[r].addr[1], nbs[1][2]),
                                        FALSE))
         /\ hist' = hs
         /\ interval' = from_secs(NEVER_TIMEOUT)
         /\ waitStart' = waitStart
         /\ now' = t
         /\ cur' = Some(r)
         /\ nbLeft' = Tail(nbs)

\* update: the neighbors loop runs for an IPv6 address only
NeighborList(r, recs) ==
    IF recs[r].addr # None /\ IsV6(recs[r].addr[1]) THEN nbOrder[r] ELSE <<>>

\* self.name of record r, as it was constructed
Name(r) == built[r].name

\* update() is invoked on record r at time t
StartUpdate(r, t) ==
    LET recs == [rec EXCEPT ![r] = BeginUpdate(rec[r], t)]
        hs == [hist EXCEPT ![r] =
                 [tried |-> Some(t),
                  retry |-> hist[r].failed /\ ~hist[r].changed,
                  failed |-> FALSE, nbfail |-> FALSE, changed |-> FALSE]]
    IN  IF rec[r].addr = None
        THEN \* self.addr.unwrap() panics
             /\ pc' = "panicked"
             /\ rec' = recs
             /\ now' = t
             /\ interval' = from_secs(NEVER_TIMEOUT)
             /\ calls' = <<>>
             /\ hist' = hs
             /\ cur' = Some(r)
             /\ UNCHANGED <<waitStart, nbLeft>>
        ELSE IF Name(r) # None
        THEN /\ pc' = "query"
             /\ rec' = recs
             /\ now' = t
             /\ interval' = from_secs(NEVER_TIMEOUT)
             /\ calls' = <<NewCall(Name(r)[1], rec[r].addr[1], TRUE)>>
             /\ hist' = hs
             /\ cur' = Some(r)
             /\ UNCHANGED <<waitStart, nbLeft>>
        ELSE Proceed(r, recs, <<>>, hs, NeighborList(r, recs), t)

\* Err(_): the timeout fires
RecvTimeout ==
    /\ Recv = "pending"
    /\ LET t == Max(now, waitStart + interval)
           sel == FirstEligible(Order, rec, t)
       IN  /\ t <= Horizon
           /\ last' = "timeout"
           /\ updated' = sel
           /\ IF sel = None
              THEN Return(rec, <<>>, hist, t)
              ELSE StartUpdate(sel[1], t)
    /\ UNCHANGED <<chan, closed, ifOrder, nbOrder, nEnv, ret, burst, ev,
                   same, lastIn,
                   lvars, cvars>>

\* the timeout branch taken over and over with a zero interval and no record
\* that can_update(): nothing changes but the clock, until a record is due
Spin ==
    /\ Recv = "pending"
    /\ interval = 0
    /\ last = "timeout"
    /\ FirstEligible(Order, rec, now) = None
    /\ now < NextWake
    /\ NextWake <= Horizon
    /\ now' = NextWake
    /\ waitStart' = NextWake
    /\ UNCHANGED <<rec, interval, pc, cur, nbLeft, chan, closed, ifOrder,
                   nbOrder, nEnv, last, updated, calls, ret, hist,
                   burst, ev, same, lastIn,
                   lvars, cvars>>

(***************************************************************************)
(* update_addr and Server::update: one action per answer awaited.          *)
(***************************************************************************)
\* another address of the same family, for the server to hold
OtherAddr(a) ==
    IF IsV4(a) THEN (IF a = A5 THEN A6 ELSE A5)
    ELSE (IF a = G10 THEN G20 ELSE G10)

QueryErr == [ok |-> FALSE, addrs |-> <<>>]

\* what Server::query may return for a query about address a
QueryAnswers(a) ==
    {QueryErr} \cup
    {[ok |-> TRUE, addrs |-> q] :
        q \in {<<>>, <<a>>, <<OtherAddr(a)>>, <<a, OtherAddr(a)>>,
               <<OtherAddr(a), a>>}}

\* a transaction's outcome: the RCODE, or "transport" for no usable answer
Rcodes == {"NoError", "ServFail", "transport"}

\* an answer takes no time, or the client gives up after its timeout
DnsDelays == {0, from_secs(DnsTimeout)}

\* history: how the query's answer compares with the address asked about
Classify(q, a) ==
    IF ~q.ok THEN "error"
    ELSE IF q.addrs = <<a>> THEN "exact"
    ELSE "other"

CurCall == calls[Len(calls)]

SetCur(c) == [calls EXCEPT ![Len(calls)] = c]

\* update_addr returned res ("ok" or "err") to update
AfterCall(cs, res, t) ==
    LET r == cur[1]
        c == cs[Len(cs)]
    IN  IF c.primary
        THEN IF res = "err"
             THEN Proceed(r, [rec EXCEPT ![r] = OnPrimaryError(rec[r])], cs,
                          [hist EXCEPT ![r].failed = TRUE],
                          NeighborsAfterPrimary(res, NeighborList(r, rec)), t)
             ELSE Proceed(r, rec, cs, hist,
                          NeighborsAfterPrimary(res, NeighborList(r, rec)), t)
        ELSE IF res = "err"
             THEN Proceed(r, [rec EXCEPT ![r] = OnNeighborError(rec[r])], cs,
                          [hist EXCEPT ![r].nbfail = TRUE], nbLeft, t)
             ELSE Proceed(r, rec, cs, hist, nbLeft, t)

\* what an answer costs the environment: a failed UPDATE transaction
\* counts, and so does a timeout, which is always a failure
Budget(failed, counted, d) ==
    LET cost == (IF failed /\ counted THEN 1 ELSE 0)
                + (IF d = from_secs(DnsTimeout) THEN 1 ELSE 0)
    IN  /\ d = from_secs(DnsTimeout) => failed
        /\ nEnv + cost <= MaxBudget
        /\ nEnv' = nEnv + cost
        /\ now + d <= Horizon

\* server.query(name, record_type) returns q after d seconds
QueryReturns(q, d) ==
    /\ Budget(~q.ok, FALSE, d)
    /\ IF NoChange(q, CurCall.addr)
       THEN AfterCall(SetCur([CurCall EXCEPT
                                 !.answer = Classify(q, CurCall.addr),
                                 !.result = Some("ok")]),
                      "ok", now + d)
       ELSE /\ pc' = "delete"
            /\ calls' = SetCur([CurCall EXCEPT
                                   !.answer = Classify(q, CurCall.addr),
                                   !.sent = Append(@, "DELETE")])
            /\ now' = now + d
            /\ UNCHANGED <<rec, interval, waitStart, cur, nbLeft, hist>>
    /\ UNCHANGED <<chan, closed, ifOrder, nbOrder, last, updated, ret,
                   burst, ev, same, lastIn,
                   lvars, cvars>>

QueryReply(d) ==
    /\ pc = "query"
    /\ \E q \in QueryAnswers(CurCall.addr) : QueryReturns(q, d)

\* delete_rrset is answered with rc after d seconds
DeleteReply(rc, d) ==
    /\ pc = "delete"
    /\ Budget(~TransactionOk(rc), TRUE, d)
    /\ IF TransactionOk(rc)
       THEN /\ pc' = "append"
            /\ calls' = SetCur([CurCall EXCEPT !.sent = Append(@, "APPEND")])
            /\ now' = now + d
            /\ UNCHANGED <<rec, interval, waitStart, cur, nbLeft, hist>>
       ELSE AfterCall(SetCur([CurCall EXCEPT !.result = Some("err")]),
                      "err", now + d)
    /\ UNCHANGED <<chan, closed, ifOrder, nbOrder, last, updated, ret,
                   burst, ev, same, lastIn,
                   lvars, cvars>>

\* append is answered with rc after d seconds
AppendReply(rc, d) ==
    /\ pc = "append"
    /\ Budget(~TransactionOk(rc), TRUE, d)
    /\ LET res == IF TransactionOk(rc) THEN "ok" ELSE "err"
       IN  AfterCall(SetCur([CurCall EXCEPT !.result = Some(res)]),
                     res, now + d)
    /\ UNCHANGED <<chan, closed, ifOrder, nbOrder, last, updated, ret,
                   burst, ev, same, lastIn,
                   lvars, cvars>>

Next ==
    \/ \E e \in KernelEvents : SourceSend(e[1], e[2])
    \/ SourceDie
    \/ RecvEvent
    \/ RecvClosed
    \/ RecvTimeout
    \/ Spin
    \/ \E d \in DnsDelays : QueryReply(d)
    \/ \E rc \in Rcodes, d \in DnsDelays : DeleteReply(rc, d)
    \/ \E rc \in Rcodes, d \in DnsDelays : AppendReply(rc, d)

Spec == Init /\ [][Next]_vars

\* the same daemon with the [[aaaa]] task of wlan0 configured without a
\* name of its own: it has its neighbors only
NamelessInit ==
    /\ InitLoop
    /\ boot = "running"
    /\ built = [LoopRecords EXCEPT ![2].name = None]
    /\ servers = {"k1"}
    /\ lpc = "live"
    /\ names = KernelLinks
    /\ initial = <<>>
    /\ seen = None

NamelessSpec == NamelessInit /\ [][Next]_vars

\* the listener emits an event of its initial snapshot: it arrives before
\* the reconciler's first wake-up and gives a record its first address
EarlyEvent(i, a) ==
    /\ last # "timeout"
    /\ \E r \in RecordIds :
          /\ Task(r).interface = i
          /\ rec[r].addr = None
          /\ Contains(Scope(r), a)
    /\ SourceSend(i, a)

\* The runs in which the initial snapshot is all that arrives, and the
\* listener lives on.
QuietNext ==
    \/ \E e \in KernelEvents : EarlyEvent(e[1], e[2])
    \/ RecvEvent
    \/ RecvTimeout
    \/ Spin
    \/ \E d \in DnsDelays : QueryReply(d)
    \/ \E rc \in Rcodes, d \in DnsDelays : DeleteReply(rc, d)
    \/ \E rc \in Rcodes, d \in DnsDelays : AppendReply(rc, d)

\* a step of the reconciler task
Reconciler ==
    \/ RecvEvent
    \/ RecvTimeout
    \/ Spin
    \/ \E d \in DnsDelays : QueryReply(d)
    \/ \E rc \in Rcodes, d \in DnsDelays : DeleteReply(rc, d)
    \/ \E rc \in Rcodes, d \in DnsDelays : AppendReply(rc, d)

\* The reconciler is a task of the tokio runtime: it is polled when an event
\* is in the channel and when its timer fires, and every DNS transaction
\* returns, with an answer or through the client's timeout.
QuietSpec == Init /\ [][QuietNext]_vars /\ WF_vars(Reconciler)

\* the listener emits an event before the reconciler's first wake-up, with
\* an address that the scope of a record of that interface contains
BurstEvent(i, a) ==
    /\ last # "timeout"
    /\ \E r \in RecordIds :
          /\ Task(r).interface = i
          /\ Contains(Scope(r), a)
    /\ SourceSend(i, a)

\* The runs in which the events stop before the first wake-up, a record's
\* address changing any number of times until then, and the listener lives
\* on.
BurstNext ==
    \/ \E e \in KernelEvents : BurstEvent(e[1], e[2])
    \/ Reconciler

BurstSpec == Init /\ [][BurstNext]_vars /\ WF_vars(Reconciler)

\* set_address(a) returns false on every record of interface i: there is
\* none, a is outside the scope, or a is the address held
ChangesNothing(i, a) ==
    \A r \in RecordIds :
       Task(r).interface = i => ~SetAddress(rec[r], Scope(r), a).changed

\* the listener emits an event that changes nothing d ticks after the
\* reconciler armed timeout(interval, recv()) and before its deadline
LateEvent(i, a, d) ==
    /\ pc = "recv"
    /\ ~closed
    /\ chan = <<>>
    /\ nEnv < MaxBudget
    /\ ChangesNothing(i, a)
    /\ now >= waitStart
    /\ now + d < waitStart + interval
    /\ chan' = <<[iface |-> i, addr |-> a]>>
    /\ nEnv' = nEnv + 1
    /\ now' = now + d
    /\ UNCHANGED <<rec, interval, waitStart, pc, cur, nbLeft, closed,
                   ifOrder, nbOrder, last, updated, calls, ret, hist, burst,
                   ev, same, lastIn,
                   lvars, cvars>>

\* The runs in which events that change nothing arrive while the reconciler
\* waits, after the changes of the opening burst.
LateNext ==
    \/ \E e \in KernelEvents : BurstEvent(e[1], e[2])
    \/ \E e \in KernelEvents, d \in 1..(TicksPerSecond - 1) :
          LateEvent(e[1], e[2], d)
    \/ Reconciler

LateSpec == Init /\ [][LateNext]_vars

(***************************************************************************)
(* ifaces::start and ifaces::run: the listener task, step by step.         *)
(***************************************************************************)
\* 2001:db8:abcd:1:aaaa:bbbb:cccc:dddd, a privacy address
Tmp == <<8193, 3512, 43981, 1, 43690, 48059, 52428, 56797>>

\* the address messages of the kernel, in the dump and as NewAddress: the
\* link index and the Address, Local and Flags attributes, if any.  On a
\* point-to-point link Address is the peer's address and Local the
\* interface's own; the second message is of such a link.
AddrMessages ==
    {[index |-> 1, addr |-> Some(A5), local |-> Some(A5),
      flags |-> Some({"PERMANENT"})],
     [index |-> 1, addr |-> Some(A6), local |-> Some(A5),
      flags |-> Some({"PERMANENT"})],
     [index |-> 2, addr |-> Some(G10), local |-> None,
      flags |-> Some({"PERMANENT"})],
     [index |-> 2, addr |-> Some(Tmp), local |-> None,
      flags |-> Some({"TEMPORARY"})],
     [index |-> 2, addr |-> Some(G20), local |-> None, flags |-> None],
     [index |-> 9, addr |-> Some(A6), local |-> Some(A6),
      flags |-> Some({"PERMANENT"})]}

\* the link messages of the kernel
LinkMessages ==
    {[kind |-> "DelLink", index |-> 2, name |-> None],
     [kind |-> "NewLink", index |-> 2, name |-> Some("wlan0")]}

\* buf_to_addr: 4 octets or 16, here 4 octets or 8 segments
BufToAddr(buf) == IF Len(buf) = 4 \/ Len(buf) = 8 THEN Some(buf) ELSE None

\* a faulty filter: the flags are not looked at
FilterIgnoringFlags(nm, m) ==
    IF m.index \notin DOMAIN nm THEN None
    ELSE IF m.addr = None \/ m.flags = None THEN None
    ELSE IF BufToAddr(m.addr[1]) = None THEN None
    ELSE Some([iface |-> nm[m.index], addr |-> BufToAddr(m.addr[1])[1]])

\* the event the address dump yields for message m, if any
SnapshotFilter(nm, m) ==
    IF m.index \notin DOMAIN nm THEN None
    ELSE IF m.addr = None \/ m.flags = None THEN None
    ELSE IF "TEMPORARY" \in m.flags[1] THEN None
    ELSE IF BufToAddr(m.addr[1]) = None THEN None
    ELSE Some([iface |-> nm[m.index], addr |-> BufToAddr(m.addr[1])[1]])

\* the event a NewAddress notification m yields, if any
LiveFilter(nm, m) ==
    IF m.index \notin DOMAIN nm THEN None
    ELSE IF m.addr = None \/ m.flags = None THEN None
    ELSE IF "TEMPORARY" \in m.flags[1] THEN None
    ELSE IF BufToAddr(m.addr[1]) = None THEN None
    ELSE Some([iface |-> nm[m.index], addr |-> BufToAddr(m.addr[1])[1]])

\* what the listener leaves alone
loopvars == <<now, rec, interval, waitStart, pc, cur, nbLeft, ifOrder,
              nbOrder, last, updated, calls, ret, hist, burst, ev, same,
              lastIn>>

\* an input of the kernel is used up
Charge == nEnv < MaxBudget /\ nEnv' = nEnv + 1

\* start: run has returned, Ok or Err; the loop logs it and calls run again
Restart == "connect"

\* run: bind(...).expect("failed to bind") panics; the task ends and its
\* Sender, the only one, is dropped
BindPanics == [lpc |-> "dead", closed |-> TRUE]

\* new_connection()
Connect(ok) ==
    /\ lpc = "connect"
    /\ IF ok THEN lpc' = "bind" /\ UNCHANGED nEnv
       ELSE lpc' = Restart /\ Charge
    /\ UNCHANGED <<loopvars, chan, closed, names, initial, seen, cvars>>

\* connection.socket_mut().bind(&addr)
Bind(ok) ==
    /\ lpc = "bind"
    /\ IF ok THEN lpc' = "links" /\ UNCHANGED <<nEnv, closed>>
       ELSE lpc' = BindPanics.lpc /\ closed' = BindPanics.closed /\ Charge
    /\ UNCHANGED <<loopvars, chan, names, initial, seen, cvars>>

\* handle.link().get(): the link dump fills interface_names
EnumerateLinks(ok) ==
    /\ lpc = "links"
    /\ IF ok THEN lpc' = "addrs" /\ names' = KernelLinks /\ UNCHANGED nEnv
       ELSE lpc' = Restart /\ names' = <<>> /\ Charge
    /\ initial' = <<>>
    /\ UNCHANGED <<loopvars, chan, closed, seen, cvars>>

\* handle.address().get(): one message of the address dump
SnapshotAddr(m) ==
    /\ lpc = "addrs"
    /\ Charge
    /\ initial' = initial \o SnapshotFilter(names, m)
    /\ seen' = Some([msg |-> m, phase |-> "addrs"])
    /\ UNCHANGED <<loopvars, chan, closed, lpc, names, cvars>>

\* the address dump ends, or fails and nothing of it is sent
SnapshotEnd(ok) ==
    /\ lpc = "addrs"
    /\ IF ok THEN lpc' = "send" /\ UNCHANGED <<nEnv, names, initial>>
       ELSE lpc' = Restart /\ names' = <<>> /\ initial' = <<>> /\ Charge
    /\ UNCHANGED <<loopvars, chan, closed, seen, cvars>>

\* for value in initial { tx.send(value).await }
SendInitial ==
    /\ lpc = "send"
    /\ IF initial = <<>>
       THEN lpc' = "live" /\ UNCHANGED <<chan, initial>>
       ELSE /\ chan = <<>>
            /\ chan' = <<Head(initial)>>
            /\ initial' = Tail(initial)
            /\ UNCHANGED lpc
    /\ UNCHANGED <<loopvars, closed, nEnv, names, seen, cvars>>

\* NewAddress(m) in the live loop
LiveAddr(m) ==
    /\ lpc = "live"
    /\ Charge
    /\ LET e == LiveFilter(names, m) IN
       IF e = None THEN UNCHANGED chan
       ELSE chan = <<>> /\ chan' = e
    /\ seen' = Some([msg |-> m, phase |-> "live"])
    /\ UNCHANGED <<loopvars, closed, lpc, names, initial, cvars>>

\* a faulty live loop: DelLink leaves interface_names as it is
DelLinkIgnored(nm, l) ==
    IF l.kind = "DelLink" THEN nm
    ELSE IF l.name = None THEN nm
    ELSE (l.index :> l.name[1]) @@ nm

\* interface_names after NewLink(l) or DelLink(l)
LinkMap(nm, l) ==
    IF l.kind = "DelLink"
    THEN [i \in DOMAIN nm \ {l.index} |-> nm[i]]
    ELSE IF l.name = None THEN nm
    ELSE (l.index :> l.name[1]) @@ nm

\* NewLink(l) and DelLink(l) in the live loop
LiveLink(l) ==
    /\ lpc = "live"
    /\ Charge
    /\ names' = LinkMap(names, l)
    /\ UNCHANGED <<loopvars, chan, closed, lpc, initial, seen, cvars>>

\* messages.next() yields None: run returns Ok(())
StreamEnd ==
    /\ lpc = "live"
    /\ Charge
    /\ lpc' = Restart
    /\ names' = <<>>
    /\ UNCHANGED <<loopvars, chan, closed, initial, seen, cvars>>

ListenerInit ==
    /\ InitLoop
    /\ boot = "running"
    /\ built = LoopRecords
    /\ servers = {"k1"}
    /\ lpc = "connect"
    /\ names = <<>>
    /\ initial = <<>>
    /\ seen = None

\* the listener step by step, the reconciler, and a server that answers at
\* once and accepts
ListenerNext ==
    \/ \E ok \in BOOLEAN : Connect(ok)
    \/ \E ok \in BOOLEAN : Bind(ok)
    \/ \E ok \in BOOLEAN : EnumerateLinks(ok)
    \/ \E m \in AddrMessages : SnapshotAddr(m)
    \/ \E ok \in BOOLEAN : SnapshotEnd(ok)
    \/ SendInitial
    \/ \E m \in AddrMessages : LiveAddr(m)
    \/ \E l \in LinkMessages : LiveLink(l)
    \/ StreamEnd
    \/ RecvEvent
    \/ RecvClosed
    \/ RecvTimeout
    \/ QueryReply(0)
    \/ DeleteReply("NoError", 0)
    \/ AppendReply("NoError", 0)

ListenerSpec == ListenerInit /\ [][ListenerNext]_vars

\* handle.address().get() of a kernel that holds one address: the only
\* message of the dump
SnapshotOnly(m) == initial = <<>> /\ SnapshotAddr(m)

\* The runs of a kernel that holds one address at a time and announces no
\* change: every address dump lists one message, the live loop sees none
\* until the stream ends and the cycle starts again.
RestartNext ==
    \/ \E ok \in BOOLEAN : Connect(ok)
    \/ \E ok \in BOOLEAN : Bind(ok)
    \/ \E ok \in BOOLEAN : EnumerateLinks(ok)
    \/ \E m \in AddrMessages : SnapshotOnly(m)
    \/ \E ok \in BOOLEAN : SnapshotEnd(ok)
    \/ SendInitial
    \/ StreamEnd
    \/ RecvEvent
    \/ RecvClosed
    \/ RecvTimeout
    \/ QueryReply(0)
    \/ DeleteReply("NoError", 0)
    \/ AppendReply("NoError", 0)

RestartSpec == ListenerInit /\ [][RestartNext]_vars

(***************************************************************************)
(* run before its loop: a RecordState is constructed for every [[a]] task, *)
(* then for every [[aaaa]] task.                                           *)
(***************************************************************************)
\* the names a key of the configuration may have
KeyIds == {"k1", "k2"}

\* the four settings a key's secret may come from
SecretParams == {"secret", "secret-base64", "secret-file",
                 "secret-file-base64"}

\* a faulty get_secret: the settings are not counted
GetSecretUncounted(present, sound) == [ok |-> TRUE]

\* TsigKey::get_secret for a key with the settings present; sound: the
\* base64 text decodes and the file can be read
GetSecret(present, sound) ==
    IF present = {}
    THEN [ok |-> FALSE, panic |-> "Neither secret nor secret-base64 nor secret-file nor secret-file-base64 configured"]
    ELSE IF Cardinality(present) > 1
    THEN [ok |-> FALSE, panic |-> "More than one of the parameters secret, secret-base64 or secret-file configured"]
    ELSE IF present = {"secret"} \/ sound
    THEN [ok |-> TRUE]
    ELSE [ok |-> FALSE, panic |-> "unwrap on the Err of decode or File::open"]

\* the task that the loop's record r was configured with
ConfigTask(r) ==
    [interface |-> Task(r).interface, name |-> Task(r).name,
     scope |-> Task(r).scope,
     neighbors |-> IF Task(r).neighbors = {} THEN None
                   ELSE Some(Task(r).neighbors),
     key |-> "k1"]

\* the scope settings a task may carry
ScopeTexts == {"10.0.0.0/8", "2001:db8::/32", "bogus"}

\* the tasks of a configuration: the scope and neighbors settings vary
Tasks ==
    [interface : {"eth0"},
     name : {Some("host.example.")},
     scope : {None} \cup {Some(x) : x \in ScopeTexts},
     neighbors : {None, Some({}),
                  Some({<<"printer.example.", <<0, 0, 0, 1, 0, 0, 0, 66>> >>})},
     key : KeyIds]
    \cup {ConfigTask(r) : r \in RecordIds}

\* IpCidr::from_str: the CIDR a text denotes, if it denotes one
ParseCidr(text) ==
    CASE text = "0.0.0.0/0" -> Some([net |-> <<0, 0, 0, 0>>, len |-> 0])
      [] text = "2000::/3" ->
            Some([net |-> <<8192, 0, 0, 0, 0, 0, 0, 0>>, len |-> 3])
      [] text = "10.0.0.0/8" -> Some([net |-> <<10, 0, 0, 0>>, len |-> 8])
      [] text = "2001:db8::/32" ->
            Some([net |-> <<8193, 3512, 0, 0, 0, 0, 0, 0>>, len |-> 32])
      [] OTHER -> None

\* RecordState::new: the text of the family's default scope
DefaultScopeText(af) == IF af = "IPv4" THEN "0.0.0.0/0" ELSE "2000::/3"

\* the RecordState that new returns for a task, af being the family it was
\* constructed for
Constructed(task, af, scope) ==
    [af |-> af, interface |-> task.interface, name |-> task.name,
     neighbors |-> IF task.neighbors = None THEN {} ELSE task.neighbors[1],
     scope |-> scope,
     addr |-> NewRecordState.addr, dirty |-> NewRecordState.dirty,
     update_tried |-> NewRecordState.update_tried]

\* a faulty new: neither the neighbors nor the family of the scope is
\* checked
NewUnchecked(task, af) ==
    LET parsed == ParseCidr(IF task.scope = None THEN DefaultScopeText(af)
                            ELSE task.scope[1])
    IN  IF parsed = None
        THEN [ok |-> FALSE, panic |-> "unwrap on the Err of IpCidr::from_str"]
        ELSE [ok |-> TRUE, st |-> Constructed(task, af, parsed[1])]

\* RecordState::new: the record, or the panic
New(task, af) ==
    LET parsed == ParseCidr(IF task.scope = None THEN DefaultScopeText(af)
                            ELSE task.scope[1])
    IN  IF parsed = None
        THEN [ok |-> FALSE, panic |-> "unwrap on the Err of IpCidr::from_str"]
        ELSE IF af = "IPv4" /\ task.neighbors # None
        THEN [ok |-> FALSE, panic |-> "neighbors are not supported on IPv4"]
        ELSE IF af = "IPv4" /\ IsV4(parsed[1].net)
        THEN [ok |-> TRUE, st |-> Constructed(task, af, parsed[1])]
        ELSE IF af = "IPv6" /\ IsV6(parsed[1].net)
        THEN [ok |-> TRUE, st |-> Constructed(task, af, parsed[1])]
        ELSE [ok |-> FALSE, panic |-> "scope doesn't match address family"]

\* run: dns::Server::new for the next key, before any task is looked at
NewServer(id, present, sound) ==
    /\ boot = "loading"
    /\ built = <<>>
    /\ id \notin servers
    /\ LET g == GetSecret(present, sound) IN
       IF g.ok THEN servers' = servers \cup {id} /\ UNCHANGED boot
       ELSE boot' = g.panic /\ UNCHANGED servers
    /\ UNCHANGED <<loopvars, chan, closed, nEnv, lvars, built>>

\* run: servers.get(key).unwrap() and RecordState::new for the next task,
\* an [[a]] task (af IPv4) as long as no [[aaaa]] task (af IPv6) has had
\* its turn
Construct(task, af) ==
    /\ boot = "loading"
    /\ Len(built) < MaxBudget
    /\ af = "IPv4" => \A i \in 1..Len(built) : built[i].af = "IPv4"
    /\ LET n == IF task.key \in servers THEN New(task, af)
                ELSE [ok |-> FALSE,
                      panic |-> "unwrap on the None of servers.get"]
       IN  IF n.ok THEN built' = Append(built, n.st) /\ UNCHANGED boot
           ELSE boot' = n.panic /\ UNCHANGED built
    /\ UNCHANGED <<loopvars, chan, closed, nEnv, lvars, servers>>

\* run: every task has its RecordState; ifaces::start() and the loop follow
StartLoop ==
    /\ boot = "loading"
    /\ boot' = "running"
    /\ UNCHANGED <<loopvars, chan, closed, nEnv, lvars, built, servers>>

\* the configuration the loop's records come from has been loaded
Loaded ==
    /\ boot = "running"
    /\ built = LoopRecords
    /\ servers = {"k1"}

ConfigInit ==
    /\ InitLoop
    /\ boot = "loading"
    /\ built = <<>>
    /\ servers = {}
    /\ lpc = "connect"
    /\ names = <<>>
    /\ initial = <<>>
    /\ seen = None

\* the keys, the tasks, and then the listener and the loop
ConfigNext ==
    \/ \E id \in KeyIds, present \in SUBSET SecretParams, sound \in BOOLEAN :
          NewServer(id, present, sound)
    \/ \E task \in Tasks, af \in {"IPv4", "IPv6"} : Construct(task, af)
    \/ StartLoop
    \/ Loaded /\ ListenerNext

ConfigSpec == ConfigInit /\ [][ConfigNext]_vars

(***************************************************************************)
(* Properties.                                                             *)
(***************************************************************************)
\* the reconciler awaits a DNS answer
InUpdate == pc \in {"query", "delete", "append"}

\* the reconciler is about to take the event branch
AtEvent == pc = "recv" /\ chan # <<>>

\* position of record r in the iteration order
Pos(r) == CHOOSE i \in 1..Len(Order) : Order[i] = r

\* update() is invoked on record r in this step
Attempted(r) == hist'[r].tried # None /\ pc = "recv" /\ cur' = Some(r)

\* C1: within one update_addr call the query for (name, type of addr) goes
\* first; a DELETE or APPEND is sent only once that query has completed, and
\* only if it failed or answered something other than exactly [addr]; when it
\* answered exactly [addr] the call returns success and has sent no UPDATE.
C1_QueryBeforeUpdate ==
    \A i \in 1..Len(calls) :
       LET c == calls[i] IN
       /\ c.sent[1] = "QUERY"
       /\ c.rtype = (IF Len(c.addr) = 4 THEN "A" ELSE "AAAA")
       /\ Len(c.sent) > 1 => c.answer \in {"error", "other"}
       /\ c.answer = "exact" => c.sent = <<"QUERY">> /\ c.result = Some("ok")
       /\ c.answer = "pending" => c.sent = <<"QUERY">> /\ c.result = None

\* one update() in which a name was skipped on an exact answer and another
\* name got its UPDATE after a different answer
C1_Witness ==
    /\ \E i \in 1..Len(calls) :
          calls[i].answer = "exact" /\ calls[i].result = Some("ok")
    /\ \E i \in 1..Len(calls) :
          /\ calls[i].answer \in {"error", "other"}
          /\ calls[i].sent = <<"QUERY", "DELETE", "APPEND">>
          /\ calls[i].result = Some("ok")

\* C2: a timeout wake-up invokes update() on at most one record, the first
\* in iteration order that can_update(), and on none when no record can; the
\* wake-up leaves every other record as it was.
C2_OneUpdatePerWakeup ==
    [][/\ RecvTimeout =>
            /\ Len(updated') <= 1
            /\ (updated' = <<>>) <=>
                  (\A r \in RecordIds : ~CanUpdate(rec[r], now'))
            /\ \A u \in RecordIds : updated' = <<u>> =>
                  /\ CanUpdate(rec[u], now')
                  /\ \A r \in RecordIds :
                        Pos(r) < Pos(u) => ~CanUpdate(rec[r], now')
                  /\ rec'[u].update_tried = Some(now')
                  /\ cur' = Some(u)
       /\ InUpdate => updated' = updated /\ cur' \in {cur, None}
       /\ (RecvTimeout \/ InUpdate) =>
            \A r \in RecordIds : updated' # <<r>> => rec'[r] = rec[r]
      ]_vars

\* update() was invoked on one record while another could be updated too
C2_Witness ==
    /\ last = "timeout"
    /\ \E u, r \in RecordIds :
          /\ updated = <<u>>
          /\ r # u
          /\ rec[u].update_tried = Some(now)
          /\ CanUpdate(rec[r], now)

\* the latest update() of record r failed on the primary name and no
\* set_address has changed the record since
FailedUnchanged(r) == hist[r].failed /\ ~hist[r].changed

\* C3 as the specification states it: once update() has failed at time t,
\* can_update() is false while now < t + RETRY_INTERVAL and true from then on.
C3_Original ==
    \A r \in RecordIds :
       hist[r].failed =>
          (CanUpdate(rec[r], now) <=> now >= hist[r].tried[1] + from_secs(RETRY_INTERVAL))

\* C3, amended: once update() invoked at time t has failed, and as long as no
\* set_address changes the record's address, can_update() is false while
\* now < t + RETRY_INTERVAL and true from then on; two consecutive update()
\* invocations on a record are at least RETRY_INTERVAL apart unless
\* set_address changed its address in between.
C3_RetrySchedule ==
    /\ [](\A r \in RecordIds :
            FailedUnchanged(r) =>
               (CanUpdate(rec[r], now)
                  <=> now >= hist[r].tried[1] + from_secs(RETRY_INTERVAL)))
    /\ [][\A r \in RecordIds :
            (Attempted(r) /\ hist[r].tried # None /\ ~hist[r].changed) =>
               now' >= hist[r].tried[1] + from_secs(RETRY_INTERVAL)]_vars

\* the instant a failed record becomes due again
C3_Witness ==
    \E r \in RecordIds :
       /\ FailedUnchanged(r)
       /\ now = hist[r].tried[1] + from_secs(RETRY_INTERVAL)
       /\ CanUpdate(rec[r], now)

\* C4: after update() has failed on the primary name, and while no event
\* changes the record, dirty stays true; update() is invoked on the record
\* again, not before RETRY_INTERVAL has passed since the failed invocation,
\* and eventually, unless the address changes or the event channel closes
\* first; an update() whose primary name succeeds leaves dirty false.
C4_RetryAfterFailure ==
    /\ [](\A r \in RecordIds :
            FailedUnchanged(r) =>
               rec[r].dirty /\ rec[r].update_tried = hist[r].tried)
    /\ [][\A r \in RecordIds :
            (Attempted(r) /\ FailedUnchanged(r)) =>
               /\ now' >= hist[r].tried[1] + from_secs(RETRY_INTERVAL)
               /\ hist'[r].retry]_vars
    /\ [](\A r \in RecordIds :
            (updated = <<r>> /\ calls # <<>> /\ calls[1].primary
               /\ calls[1].result = Some("ok")) => ~rec[r].dirty)
    /\ \A r \in RecordIds :
          FailedUnchanged(r) ~> (~hist[r].failed \/ hist[r].changed \/ closed)

\* a retry, RETRY_INTERVAL after the failed update(), has succeeded
C4_Witness ==
    \E r \in RecordIds :
       /\ pc = "recv"
       /\ updated = <<r>>
       /\ hist[r].retry
       /\ hist[r].tried[1] >= from_secs(RETRY_INTERVAL)
       /\ calls[1].primary /\ calls[1].result = Some("ok")
       /\ ~rec[r].dirty

\* C5 as the specification states it: when the timeout branch is done and a
\* dirty record waits for its retry, its failed attempt younger than
\* RETRY_INTERVAL, and no record can be updated now, the interval armed is
\* strictly positive.
C5_IntervalPositive ==
    (/\ pc = "recv"
     /\ last = "timeout"
     /\ \A r \in RecordIds : ~CanUpdate(rec[r], now)
     /\ \E r \in RecordIds :
           /\ rec[r].dirty
           /\ rec[r].update_tried # None
           /\ now < rec[r].update_tried[1] + from_secs(RETRY_INTERVAL))
    => interval > 0

\* C6: after events that changed a record, no update() is invoked until
\* IDLE_TIMEOUT has passed since the last event received; the address an
\* update() sends for the primary name is the last address received for the
\* record's interface that its scope contains, never an earlier one; and
\* update() is invoked on a record once per change of its address, and again
\* only after a failure on the primary name.
C6_Debounce ==
    /\ [][(RecvTimeout /\ last = "event"
             /\ \E r \in RecordIds : burst[r] > 0) =>
            /\ now' >= waitStart + from_secs(IDLE_TIMEOUT)
            /\ now' >= now + from_secs(IDLE_TIMEOUT)]_vars
    /\ [](\A i \in 1..Len(calls) :
            calls[i].primary =>
               \E u \in RecordIds :
                  updated = <<u>> /\ lastIn[u] = Some(calls[i].addr))
    /\ [][\A r \in RecordIds :
            Attempted(r) => hist[r].changed \/ hist[r].failed]_vars

\* two address changes of one record in a row, then one update() that sent
\* the later address
C6_Witness ==
    \E r \in RecordIds :
       /\ pc = "recv"
       /\ last = "timeout"
       /\ updated = <<r>>
       /\ burst[r] >= 2
       /\ calls[1].sent = <<"QUERY", "DELETE", "APPEND">>
       /\ calls[1].result = Some("ok")
       /\ Some(calls[1].addr) = lastIn[r]
       /\ ~rec[r].dirty

\* the addresses outside the scope of each record
Outside == [r \in RecordIds |-> {a \in Addrs : ~Contains(Scope(r), a)}]

\* C7: set_address with an address outside the record's scope returns false
\* and changes nothing of the record, whatever the address and whenever the
\* event branch runs; the default IPv6 scope 2000::/3 keeps out link-local
\* and unique-local addresses.
C7_OutOfScope ==
    /\ [](AtEvent =>
            \A r \in RecordIds : \A a \in Outside[r] :
               SetAddress(rec[r], Scope(r), a)
                  = [changed |-> FALSE, st |-> rec[r]])
    /\ [](/\ ~Contains(DefaultScope("IPv6"), LinkLocal)
          /\ ~Contains(DefaultScope("IPv6"), Ula)
          /\ Contains(DefaultScope("IPv6"), G10)
          /\ {LinkLocal, Ula} \subseteq Outside[2])
    /\ [][RecvEvent =>
            \A r \in RecordIds :
               ~Contains(Scope(r), chan[1].addr) =>
                  rec'[r] = rec[r] /\ ~ret'[r] /\ hist'[r] = hist[r]]_vars

\* a link-local address was received for the interface of an IPv6 record that
\* holds an address, and the record kept it
C7_Witness ==
    /\ last = "event"
    /\ ev # None
    /\ ev[1].addr = LinkLocal
    /\ \E r \in RecordIds :
          /\ Task(r).interface = ev[1].iface
          /\ ~Contains(Scope(r), ev[1].addr)
          /\ rec[r].addr # None
          /\ ~ret[r]

\* C8: set_address called a second time with the same address returns false
\* and leaves the record as the first call left it, whatever the address and
\* whenever the event branch runs.
C8_Idempotent ==
    /\ [](AtEvent =>
            \A r \in RecordIds : \A a \in Addrs :
               LET first == SetAddress(rec[r], Scope(r), a)
                   second == SetAddress(first.st, Scope(r), a)
               IN  ~second.changed /\ second.st = first.st)
    /\ [][(RecvEvent /\ same') =>
            /\ rec' = rec
            /\ \A r \in RecordIds : ~ret'[r]
            /\ interval' = interval]_vars

\* the same event was received twice in a row, its address in the scope of a
\* record of its interface
C8_Witness ==
    /\ same
    /\ last = "event"
    /\ \E r \in RecordIds :
          /\ Task(r).interface = ev[1].iface
          /\ rec[r].addr = Some(ev[1].addr)
          /\ rec[r].dirty
          /\ ~ret[r]

\* C9: update() attempts the primary name before any neighbor; when the
\* primary name fails, dirty is set again and update() returns without a
\* query or UPDATE for a neighbor; neighbors are attempted only after the
\* primary name succeeded.
C9_PrimaryFirst ==
    /\ \A i \in 1..Len(calls) : calls[i].primary => i = 1
    /\ (updated # <<>> /\ calls # <<>> /\ Task(updated[1]).name # None) =>
          calls[1].primary /\ calls[1].name = Task(updated[1]).name[1]
    /\ (calls # <<>> /\ calls[1].primary /\ calls[1].result = Some("err")) =>
          /\ Len(calls) = 1
          /\ ~InUpdate
          /\ cur = None
          /\ rec[updated[1]].dirty
    /\ (Len(calls) >= 2 /\ calls[1].primary) => calls[1].result = Some("ok")

\* the primary name of the record with neighbors, holding an IPv6 address,
\* has failed
C9_Witness ==
    /\ updated = <<2>>
    /\ IsV6(rec[2].addr[1])
    /\ Task(2).neighbors # {}
    /\ calls[1].primary
    /\ calls[1].result = Some("err")
    /\ rec[2].dirty

\* C10: when the primary name succeeded and a neighbor failed, update() ends
\* with dirty false, every neighbor has been attempted, no retry is
\* scheduled, and update() is not invoked on the record again before
\* set_address changes its address.
C10_NeighborFailure ==
    /\ [](\A u \in RecordIds :
            (/\ pc = "recv"
             /\ updated = <<u>>
             /\ calls # <<>>
             /\ calls[1].primary
             /\ calls[1].result = Some("ok")
             /\ \E i \in 2..Len(calls) : calls[i].result = Some("err")) =>
               /\ ~rec[u].dirty
               /\ Len(calls) = 1 + Cardinality(Task(u).neighbors)
               /\ {calls[i].name : i \in 2..Len(calls)}
                     = {n[1] : n \in Task(u).neighbors}
               /\ \A i \in 2..Len(calls) : calls[i].result # None
               /\ NextTimeout(rec[u], now) = None
               /\ ~CanUpdate(rec[u], now + from_secs(RETRY_INTERVAL)))
    /\ [][\A r \in RecordIds :
            (Attempted(r) /\ hist[r].nbfail /\ ~hist[r].failed) =>
               hist[r].changed]_vars

\* the first neighbor failed, the second was attempted all the same
C10_Witness ==
    /\ pc = "recv"
    /\ Len(calls) = 3
    /\ calls[1].primary /\ calls[1].result = Some("ok")
    /\ calls[2].result = Some("err")
    /\ calls[3].result = Some("ok")
    /\ ~rec[updated[1]].dirty

\* the template configured for neighbor name of record u
Template(u, name) == (CHOOSE n \in Task(u).neighbors : n[1] = name)[2]

\* network halves a template might carry
HighHalves == {<<0, 0, 0, 0>>, <<65152, 0, 0, 0>>, <<8193, 3512, 43981, 9>>}

\* C11: the address sent for a neighbor is segments 0..3 of the record's
\* IPv6 address followed by segments 4..7 of the neighbor's template; the
\* template's segments 0..3 have no influence on it.
C11_NeighborDerivation ==
    \A i \in 1..Len(calls) :
       ~calls[i].primary =>
          LET u == updated[1]
              A == rec[u].addr[1]
              T == Template(u, calls[i].name)
          IN  /\ IsV6(A)
              /\ calls[i].addr = SubSeq(A, 1, 4) \o SubSeq(T, 5, 8)
              /\ calls[i].rtype = "AAAA"
              /\ \A h \in HighHalves :
                    NeighborAddr(A, h \o SubSeq(T, 5, 8)) = calls[i].addr

\* the neighbor whose template has a non-zero network half (fe80::43) was
\* sent 2001:db8:abcd:1::43
C11_Witness ==
    \E i \in 1..Len(calls) :
       /\ ~calls[i].primary
       /\ calls[i].name = "nas.example."
       /\ Template(2, calls[i].name)[1] = 65152
       /\ rec[2].addr = Some(G10)
       /\ calls[i].addr = <<8193, 3512, 43981, 1, 0, 0, 0, 67>>

\* the addresses of a sequence of events
AddrsOf(evs) == {evs[i].addr : i \in 1..Len(evs)}

\* message m carries the temporary flag
Temporary(m) == m.flags # None /\ "TEMPORARY" \in m.flags[1]

\* C12: an address flagged temporary is never put on the event channel,
\* from the address dump or from a NewAddress notification: handling such a
\* message changes neither the channel nor the events waiting to be sent nor
\* anything of the reconciler, and the address never shows in an event, in a
\* record or in an update_addr call.
C12_TemporaryFiltered ==
    /\ [](/\ Tmp \notin AddrsOf(chan) \cup AddrsOf(initial) \cup AddrsOf(ev)
                          \cup AddrsOf(calls)
          /\ \A r \in RecordIds : rec[r].addr # Some(Tmp))
    /\ [][\A m \in AddrMessages :
            (Temporary(m) /\ (SnapshotAddr(m) \/ LiveAddr(m))) =>
               /\ chan' = chan
               /\ initial' = initial
               /\ UNCHANGED loopvars]_vars

\* the live loop has just handled the privacy address of an interface whose
\* permanent address, from the dump, a record holds
C12_Witness ==
    /\ seen # None
    /\ Temporary(seen[1].msg)
    /\ seen[1].msg.addr = Some(Tmp)
    /\ seen[1].phase = "live"
    /\ seen[1].msg.index \in DOMAIN names
    /\ names[seen[1].msg.index] = "wlan0"
    /\ Contains(Scope(2), Tmp)
    /\ rec[2].addr = Some(G10)
    /\ chan = <<>>

\* the addresses the scope of each record contains, of all the addresses
\* the kernel may report
InScope == [r \in RecordIds |-> {a \in Addrs : Contains(Scope(r), a)}]

\* C13: an address a record holds is contained in the record's scope.
C13_AddrInScope ==
    \A r \in RecordIds :
       rec[r].addr # None =>
          /\ rec[r].addr[1] \in InScope[r]
          /\ (Task(r).af = "IPv4") <=> IsV4(rec[r].addr[1])

\* both records hold an address, and the event received last, for the
\* interface of the IPv4 record, carried an IPv6 address
C13_Witness ==
    /\ last = "event"
    /\ ev = Some([iface |-> "eth0", addr |-> G10])
    /\ rec[1].addr = Some(A5)
    /\ rec[2].addr # None
    /\ ~Contains(Scope(1), G10)

\* C14: a dirty record holds an address: a record is not dirty before it has
\* learned an address, and an address once set is never cleared.
C14_DirtyHasAddr ==
    /\ [](\A r \in RecordIds : rec[r].dirty => rec[r].addr # None)
    /\ [](\A r \in RecordIds :
            rec[r].addr = None => ~rec[r].dirty /\ rec[r].update_tried = None)
    /\ [][\A r \in RecordIds :
            rec[r].addr # None => rec'[r].addr # None]_vars

\* a record is dirty again after a failed update() and still holds its
\* address, while the other record has learned none
C14_Witness ==
    \E r, q \in RecordIds :
       /\ r # q
       /\ rec[r].dirty
       /\ hist[r].failed
       /\ rec[r].addr # None
       /\ rec[r].update_tried # None
       /\ rec[q].addr = None

\* the scope texts that denote a CIDR of each family
TextsOfFamily(af) ==
    IF af = "IPv4" THEN {"10.0.0.0/8", "0.0.0.0/0"}
    ELSE {"2001:db8::/32", "2000::/3"}

\* the other family
Other(af) == IF af = "IPv4" THEN "IPv6" ELSE "IPv4"

\* C15: constructing an IPv4 RecordState from a task with a non-empty
\* neighbors map fails, and so does constructing a RecordState whose scope
\* is a CIDR of the other family; every RecordState constructed has no
\* neighbors when IPv4, and a scope of its own family.
C15_ConstructionChecks ==
    /\ [](\A i \in 1..Len(built) :
            /\ built[i].af = "IPv4" => built[i].neighbors = {}
            /\ Len(built[i].scope.net) = (IF built[i].af = "IPv4" THEN 4 ELSE 8))
    /\ [][\A task \in Tasks : \A af \in {"IPv4", "IPv6"} :
            Construct(task, af) =>
               /\ (af = "IPv4" /\ task.neighbors # None
                     /\ task.neighbors[1] # {}) =>
                    boot' # "loading" /\ boot' # "running" /\ built' = built
               /\ (task.scope # None
                     /\ task.scope[1] \in TextsOfFamily(Other(af))) =>
                    boot' # "loading" /\ boot' # "running" /\ built' = built
               /\ (task.key \in servers /\ task.scope = None
                     /\ (af = "IPv6" \/ task.neighbors = None)) =>
                    Len(built') = Len(built) + 1]_vars

\* an IPv4 record exists, and the construction of the next, from a task with
\* neighbors, has panicked
C15_Witness ==
    /\ boot = "neighbors are not supported on IPv4"
    /\ Len(built) >= 1
    /\ \A i \in 1..Len(built) : built[i].af = "IPv4"

\* C16: no error of the listener closes the event channel or ends the
\* reconciler: after any error the listener is back at the start of its
\* subscribe-enumerate-listen cycle.
C16_ErrorsNeverClose == ~closed /\ lpc # "dead" /\ pc # "finished"

\* C17: when recv() yields None (the channel is closed and empty) the loop
\* returns "finished" at once, changing no record and starting no DNS call,
\* and nothing runs afterwards; the loop ends in no other way.
C17_ClosedChannelFinishes ==
    /\ [][(pc = "recv" /\ closed /\ chan = <<>>) =>
            pc' = "finished" /\ rec' = rec /\ calls' = calls /\ now' = now]_vars
    /\ [][pc = "finished" =>
            pc' = "finished" /\ rec' = rec /\ calls' = calls]_vars
    /\ [][(pc' = "finished" /\ pc # "finished") =>
            pc = "recv" /\ closed /\ chan = <<>>]_vars
    /\ [](pc \in {"recv", "query", "delete", "append", "finished"})
    /\ [](pc = "finished" => closed)

\* the loop has returned "finished" while a record was still dirty
C17_Witness ==
    /\ pc = "finished"
    /\ closed
    /\ \E r \in RecordIds : rec[r].dirty /\ rec[r].addr # None

\* C18: Server::update sends the DELETE first and the APPEND second; when
\* the DELETE fails in transport or is answered with an RCODE other than
\* NoError, update returns an error and no APPEND is sent; when the APPEND
\* fails or is answered with an RCODE other than NoError, update returns an
\* error; update returns ok only when both were answered NoError.
C18_DeleteThenAppend ==
    /\ [](\A i \in 1..Len(calls) :
            /\ calls[i].sent \in {<<"QUERY">>, <<"QUERY", "DELETE">>,
                                  <<"QUERY", "DELETE", "APPEND">>}
            /\ (calls[i].result = Some("ok") /\ calls[i].answer # "exact") =>
                  calls[i].sent = <<"QUERY", "DELETE", "APPEND">>)
    /\ [](pc = "delete" =>
            CurCall.sent = <<"QUERY", "DELETE">> /\ CurCall.result = None)
    /\ [](pc = "append" =>
            /\ CurCall.sent = <<"QUERY", "DELETE", "APPEND">>
            /\ CurCall.result = None)
    /\ [][\A rc \in Rcodes, d \in DnsDelays :
            DeleteReply(rc, d) =>
               LET c == calls'[Len(calls)] IN
               IF rc = "NoError"
               THEN /\ pc' = "append"
                    /\ Len(calls') = Len(calls)
                    /\ c.sent = <<"QUERY", "DELETE", "APPEND">>
                    /\ c.result = None
               ELSE /\ pc' # "append"
                    /\ c.sent = <<"QUERY", "DELETE">>
                    /\ c.result = Some("err")]_vars
    /\ [][\A rc \in Rcodes, d \in DnsDelays :
            AppendReply(rc, d) =>
               LET c == calls'[Len(calls)] IN
               /\ pc' \notin {"delete", "append"}
               /\ c.sent = <<"QUERY", "DELETE", "APPEND">>
               /\ c.result = Some(IF rc = "NoError" THEN "ok" ELSE "err")]_vars
    /\ [][InUpdate =>
            \A i \in 1..Len(calls) :
               calls[i].result # None => calls'[i] = calls[i]]_vars

\* one update() with a call whose DELETE failed, a call whose APPEND failed
\* and a call that went through
C18_Witness ==
    /\ \E i \in 1..Len(calls) :
          /\ calls[i].sent = <<"QUERY", "DELETE">>
          /\ calls[i].result = Some("err")
    /\ \E i \in 1..Len(calls) :
          /\ calls[i].sent = <<"QUERY", "DELETE", "APPEND">>
          /\ calls[i].result = Some("err")
    /\ \E i \in 1..Len(calls) :
          /\ calls[i].sent = <<"QUERY", "DELETE", "APPEND">>
          /\ calls[i].result = Some("ok")

\* the calls of the current update() that have not returned
Outstanding == {i \in 1..Len(calls) : calls[i].result = None}

\* C19: at most one update() is in flight and at most one DNS call is
\* outstanding; while an update() is in flight the reconciler takes no event
\* from the channel, so no set_address runs and the address of every record
\* stays as it was when the update() began.
C19_OneUpdateInFlight ==
    /\ [](InUpdate =>
            /\ cur # None
            /\ updated = cur
            /\ Outstanding = {Len(calls)})
    /\ [](~InUpdate => Outstanding = {} /\ cur = None)
    /\ [][InUpdate =>
            /\ \A r \in RecordIds : rec'[r].addr = rec[r].addr
            /\ ev' = ev
            /\ ret' = ret
            /\ chan # <<>> => chan' = chan
            /\ \A r \in RecordIds : r # cur[1] => rec'[r] = rec[r]]_vars

\* an update() of a record is in flight while an event with another
\* address in its scope waits in the channel
C19_Witness ==
    /\ InUpdate
    /\ chan # <<>>
    /\ \E r \in RecordIds :
          /\ cur = Some(r)
          /\ Task(r).interface = chan[1].iface
          /\ Some(chan[1].addr) # rec[r].addr
          /\ chan[1].addr \notin Outside[r]

\* cold start of record r: the address dump held one message, its event is
\* the only one received, the query about the record's name was answered
\* with something other than exactly that address, and update() has returned
Cold(r) ==
    /\ nEnv = 1
    /\ seen # None
    /\ seen[1].phase = "addrs"
    /\ ev # None
    /\ ev[1].iface = Task(r).interface
    /\ hist[r].tried # None
    /\ ~InUpdate
    /\ calls # <<>>
    /\ calls[1].answer = "other"

\* update() has succeeded on record r and no event has changed r since
Settled(r) ==
    /\ hist[r].tried # None
    /\ ~hist[r].failed
    /\ ~hist[r].changed
    /\ cur # Some(r)

\* C20: after a cold start with one in-scope address, a server that holds a
\* different answer and accepts the update, exactly one DELETE and then one
\* APPEND have been sent for the record's name with that address; the record
\* is clean and the wait is NEVER_TIMEOUT; without an event that changes the
\* record, update() is not invoked on it again.
C20_ColdStart ==
    /\ [](\A r \in RecordIds :
            Cold(r) =>
               /\ calls[1].name = Task(r).name[1]
               /\ calls[1].addr = ev[1].addr
               /\ calls[1].primary
               /\ calls[1].sent = <<"QUERY", "DELETE", "APPEND">>
               /\ calls[1].result = Some("ok")
               /\ \A i \in 2..Len(calls) :
                     ~calls[i].primary /\ calls[i].name # calls[1].name
               /\ rec[r].addr = Some(ev[1].addr)
               /\ ~rec[r].dirty
               /\ rec[r].update_tried = hist[r].tried
               /\ pc = "recv"
               /\ interval = from_secs(NEVER_TIMEOUT))
    /\ [](\A r \in RecordIds :
            Settled(r) =>
               ~rec[r].dirty /\ NextTimeout(rec[r], now) = None)
    /\ [][\A r \in RecordIds :
            /\ Settled(r) => ~Attempted(r)
            /\ (Settled(r) /\ ~Settled(r)') =>
                  /\ AtEvent
                  /\ ret'[r]
                  /\ rec'[r].addr # rec[r].addr]_vars
    /\ []((pc = "recv" /\ last = "timeout"
             /\ \A r \in RecordIds : ~rec[r].dirty) =>
            interval = from_secs(NEVER_TIMEOUT))

\* the cold start of the IPv4 record is over: the snapshot's address of eth0
\* is on the server and the reconciler waits without a deadline
C20_Witness ==
    /\ Cold(1)
    /\ lpc = "live"
    /\ rec[1].addr = Some(A5)
    /\ calls = <<[name |-> "host.example.", addr |-> A5, rtype |-> "A",
                  primary |-> TRUE,
                  sent |-> <<"QUERY", "DELETE", "APPEND">>,
                  answer |-> "other", result |-> Some("ok")]>>
    /\ interval = from_secs(NEVER_TIMEOUT)

\* run has panicked before its loop
Panicked == boot \notin {"loading", "running"}

\* C21: a key with none or with more than one of the four secret settings,
\* and a task whose key names no configured key, end the start-up with a
\* panic; after it nothing runs, so the listener has not been started and no
\* query or UPDATE has been sent.
C21_ConfigErrorsFatal ==
    /\ [][\A id \in KeyIds, present \in SUBSET SecretParams, sound \in BOOLEAN :
            NewServer(id, present, sound) =>
               IF Cardinality(present) = 1 /\ (sound \/ present = {"secret"})
               THEN servers' = servers \cup {id} /\ boot' = "loading"
               ELSE Panicked' /\ servers' = servers]_vars
    /\ [][\A task \in Tasks, af \in {"IPv4", "IPv6"} :
            (Construct(task, af) /\ task.key \notin servers) =>
               Panicked' /\ built' = built]_vars
    /\ [][~Panicked]_vars
    /\ [](boot # "running" =>
            /\ lpc = "connect"
            /\ names = <<>>
            /\ chan = <<>>
            /\ ev = None
            /\ calls = <<>>
            /\ pc = "recv"
            /\ \A r \in RecordIds : rec[r] = NewRecordState)
    /\ [][boot' = "running" => boot \in {"loading", "running"}]_vars

\* a key has its Server and one task its record; the next task names a key
\* that is not configured, and the start-up has panicked
C21_Witness ==
    /\ boot = "unwrap on the None of servers.get"
    /\ servers = {"k1"}
    /\ Len(built) = 1
    /\ lpc = "connect"
    /\ calls = <<>>

\* the dirty records
Dirty == {r \in RecordIds : rec[r].dirty}

\* the time left until the earliest next_timeout() of a dirty record
Remaining ==
    LET left == {NextTimeout(rec[r], now)[1] - now : r \in Dirty}
    IN  CHOOSE d \in left : \A e \in left : d <= e

\* C22: at the end of the timeout branch the interval is NEVER_TIMEOUT when
\* no record is dirty, 0 when a dirty record has next_timeout() <= now, and
\* otherwise the least next_timeout() - now over the dirty records.
C22_IntervalAtEnd ==
    (pc = "recv" /\ last = "timeout") =>
       interval = (IF Dirty = {} THEN from_secs(NEVER_TIMEOUT)
                   ELSE IF \E r \in Dirty : NextTimeout(rec[r], now)[1] <= now
                   THEN 0
                   ELSE Remaining)

\* update() has failed on record r and an event has changed r since
ChangedAfterFailure(r) == hist[r].failed /\ hist[r].changed /\ cur # Some(r)

\* C23: set_address with an address in scope that differs from the one held
\* sets it, sets dirty, clears update_tried and returns true, whatever the
\* record was before; when that happens while the record waits for its retry,
\* can_update() is true at once, and the next update(), no sooner than
\* IDLE_TIMEOUT after the last event, sends the new address.
C23_ChangeResetsRetry ==
    /\ [][RecvEvent =>
            \A r \in RecordIds :
               (/\ Task(r).interface = chan[1].iface
                /\ chan[1].addr \in InScope[r]
                /\ rec[r].addr # Some(chan[1].addr)) =>
                  /\ rec'[r] = [addr |-> Some(chan[1].addr), dirty |-> TRUE,
                                update_tried |-> None]
                  /\ ret'[r]
                  /\ CanUpdate(rec'[r], now')
                  /\ now' = now
                  /\ interval' = from_secs(IDLE_TIMEOUT)]_vars
    /\ [](\A r \in RecordIds :
            ChangedAfterFailure(r) =>
               /\ rec[r].dirty
               /\ rec[r].update_tried = None
               /\ rec[r].addr = lastIn[r]
               /\ CanUpdate(rec[r], now))
    /\ [][\A r \in RecordIds :
            (Attempted(r) /\ ChangedAfterFailure(r)) =>
               /\ last = "event" => now' >= waitStart + from_secs(IDLE_TIMEOUT)
               /\ Task(r).name # None =>
                     /\ calls'[1].addr = lastIn[r][1]
                     /\ calls'[1].name = Task(r).name[1]]_vars

\* a record that failed less than RETRY_INTERVAL ago has just been given
\* another address and can be updated
C23_Witness ==
    \E r \in RecordIds :
       /\ ChangedAfterFailure(r)
       /\ pc = "recv"
       /\ last = "event"
       /\ ret[r]
       /\ now < hist[r].tried[1] + from_secs(RETRY_INTERVAL)
       /\ CanUpdate(rec[r], now)
       /\ interval = from_secs(IDLE_TIMEOUT)

\* C24: update_addr sends the UPDATE whenever the query did not answer
\* exactly [addr]: when it failed, when it answered nothing, one other
\* address, or several addresses, addr among them or not; the call then
\* returns what Server::update returns.
C24_UpdateUnlessExact ==
    /\ [][pc = "query" =>
            \A d \in DnsDelays : \A q \in QueryAnswers(CurCall.addr) :
               QueryReturns(q, d) =>
                  LET c == calls'[Len(calls)] IN
                  IF q = [ok |-> TRUE, addrs |-> <<CurCall.addr>>]
                  THEN /\ c.sent = <<"QUERY">>
                       /\ c.result = Some("ok")
                       /\ pc' # "delete"
                  ELSE /\ pc' = "delete"
                       /\ c.sent = <<"QUERY", "DELETE">>
                       /\ c.result = None
                       /\ c.addr = CurCall.addr
                       /\ c.name = CurCall.name]_vars
    /\ [][(pc = "delete" \/ pc = "append") =>
            \A rc \in Rcodes, d \in DnsDelays :
               (DeleteReply(rc, d) \/ AppendReply(rc, d)) =>
                  (LET c == calls'[Len(calls)] IN
                   /\ c.answer = CurCall.answer
                   /\ c.answer \in {"error", "other"}
                   /\ rc # "NoError" => c.result = Some("err")
                   /\ (rc = "NoError" /\ pc = "append") =>
                         c.result = Some("ok")
                   /\ (rc = "NoError" /\ pc = "delete") =>
                         c.result = None)]_vars

\* an update() with a call whose query failed and whose UPDATE went through,
\* and a call whose query answered something else and whose UPDATE failed
C24_Witness ==
    /\ \E i \in 1..Len(calls) :
          /\ calls[i].answer = "error"
          /\ calls[i].sent = <<"QUERY", "DELETE", "APPEND">>
          /\ calls[i].result = Some("ok")
    /\ \E i \in 1..Len(calls) :
          /\ calls[i].answer = "other"
          /\ Len(calls[i].sent) > 1
          /\ calls[i].result = Some("err")

\* C25: update() of a record without a name sends nothing for a primary
\* name, calls update_addr for every neighbor with the address derived from
\* the record's address, and returns with dirty false whatever those calls
\* returned.
C25_NeighborOnly ==
    /\ [](\A r \in RecordIds :
            (Name(r) = None /\ updated = <<r>>) =>
               /\ \A i \in 1..Len(calls) :
                     /\ ~calls[i].primary
                     /\ \E n \in Task(r).neighbors :
                           /\ calls[i].name = n[1]
                           /\ calls[i].addr
                                 = SubSeq(rec[r].addr[1], 1, 4)
                                      \o SubSeq(n[2], 5, 8)
               /\ ~rec[r].dirty
               /\ pc = "recv" =>
                     /\ Len(calls) = Cardinality(Task(r).neighbors)
                     /\ {calls[i].name : i \in 1..Len(calls)}
                           = {n[1] : n \in Task(r).neighbors}
                     /\ \A i \in 1..Len(calls) : calls[i].result # None
                     /\ NextTimeout(rec[r], now) = None)
    /\ [][\A r \in RecordIds :
            (Name(r) = None /\ Attempted(r)) =>
               /\ pc' = "query"
               /\ Len(calls') = 1
               /\ ~rec'[r].dirty]_vars

\* update() of the nameless record has returned: both its neighbors were
\* tried, both failed, and the record is clean
C25_Witness ==
    /\ Name(2) = None
    /\ pc = "recv"
    /\ updated = <<2>>
    /\ Len(calls) = 2
    /\ \A i \in 1..2 : ~calls[i].primary /\ calls[i].result = Some("err")
    /\ ~rec[2].dirty

\* C26: NewLink adds to the index-to-name map and DelLink removes from it; a
\* NewAddress notification puts an event on the channel only if the map has
\* its index at that moment, and the event carries the name the map holds;
\* after DelLink for an index nothing of that index is emitted until a
\* NewLink names it again.
C26_LinkMap ==
    /\ [][\A l \in LinkMessages :
            LiveLink(l) =>
               /\ l.kind = "DelLink" =>
                     /\ l.index \notin DOMAIN names'
                     /\ \A i \in DOMAIN names \ {l.index} :
                           i \in DOMAIN names' /\ names'[i] = names[i]
               /\ (l.kind = "NewLink" /\ l.name # None) =>
                     /\ DOMAIN names' = DOMAIN names \cup {l.index}
                     /\ names'[l.index] = l.name[1]
               /\ chan' = chan]_vars
    /\ [][\A m \in AddrMessages :
            LiveAddr(m) =>
               IF m.index \in DOMAIN names
               THEN chan' # chan =>
                       /\ chan = <<>>
                       /\ chan'[1].iface = names[m.index]
               ELSE chan' = chan /\ UNCHANGED loopvars]_vars
    /\ [][(lpc = "live" /\ lpc' = "live" /\ names' # names) =>
            \E l \in LinkMessages : LiveLink(l)]_vars

\* the link of wlan0 was deleted before any address was reported; the live
\* loop has then handled a permanent address of that index, and no event
\* came of it
C26_Witness ==
    /\ lpc = "live"
    /\ 2 \notin DOMAIN names
    /\ seen # None
    /\ seen[1].phase = "live"
    /\ seen[1].msg.index = 2
    /\ seen[1].msg.flags = Some({"PERMANENT"})
    /\ chan = <<>>
    /\ ev = None

\* the event that message m yields now that the link map is nm: the name of
\* its interface and its Address or Local attribute
Emits(nm, m, e) ==
    /\ e.iface = nm[m.index]
    /\ Some(e.addr) \in {m.addr, m.local}

\* C27: the address dump and the live loop apply the same filter, and only a
\* temporary address is dropped: every other address message of a known
\* interface yields one event, whatever the scope of the address.
C27_OnlyTemporaryDropped ==
    /\ [](\A m \in AddrMessages :
            SnapshotFilter(names, m) = LiveFilter(names, m))
    /\ [][\A m \in AddrMessages :
            (m.index \in DOMAIN names /\ ~Temporary(m) /\ m.addr # None) =>
               /\ SnapshotAddr(m) =>
                     /\ Len(initial') = Len(initial) + 1
                     /\ Emits(names, m, initial'[Len(initial')])
               /\ LiveAddr(m) =>
                     /\ Len(chan') = 1
                     /\ Emits(names, m, chan'[1])]_vars

\* the address the event of message m is to carry: the local endpoint of a
\* point-to-point link when it differs from the peer, else the Address
\* attribute
Preferred(m) ==
    IF m.local # None /\ m.local # m.addr THEN m.local ELSE m.addr

\* C28: the event of an address message of a point-to-point link whose local
\* endpoint differs from the peer carries the local endpoint; the event of
\* every other message carries the message's Address attribute.
C28_LocalPreferred ==
    [][\A m \in AddrMessages :
         /\ (SnapshotAddr(m) /\ initial' # initial) =>
               Some(initial'[Len(initial')].addr) = Preferred(m)
         /\ (LiveAddr(m) /\ chan' # chan) =>
               Some(chan'[1].addr) = Preferred(m)]_vars

\* C29: update() is invoked only on a record that holds an address, so the
\* unwrap of the address at the start of update() never panics.
C29_UpdateHasAddr ==
    /\ [](\A r \in RecordIds :
            \A t \in {now, now + from_secs(IDLE_TIMEOUT), now + from_secs(RETRY_INTERVAL)} :
               CanUpdate(rec[r], t) => rec[r].addr # None)
    /\ [][\A r \in RecordIds :
            Attempted(r) =>
               /\ CanUpdate(rec[r], now')
               /\ rec[r].addr # None
               /\ rec'[r].addr = rec[r].addr
               /\ pc' = "query"]_vars
    /\ [](pc # "panicked")
    /\ [](cur # None => rec[cur[1]].addr # None)

\* update() has been invoked a second time on a record, after a failure, and
\* found the address the record holds
C29_Witness ==
    \E r \in RecordIds :
       /\ pc = "query"
       /\ cur = Some(r)
       /\ hist[r].retry
       /\ rec[r].addr # None
       /\ calls[1].addr = rec[r].addr[1]

\* the instants at which the two functions are compared
Instants == {now, now + from_secs(IDLE_TIMEOUT), now + from_secs(RETRY_INTERVAL) - 1,
             now + from_secs(RETRY_INTERVAL)}

\* C30: next_timeout() is none exactly when dirty is false, and for a dirty
\* record can_update() holds exactly when next_timeout() <= now; whenever a
\* record is dirty after the timeout branch, the wait armed ends no later
\* than the instant the record becomes eligible.
C30_TimeoutAgreement ==
    /\ [](\A r \in RecordIds : \A t \in Instants :
            /\ (NextTimeout(rec[r], t) = None) <=> ~rec[r].dirty
            /\ rec[r].dirty =>
                  (CanUpdate(rec[r], t) <=> NextTimeout(rec[r], t)[1] <= t))
    /\ [](\A r \in RecordIds :
            (pc = "recv" /\ last = "timeout" /\ rec[r].dirty) =>
               /\ interval < from_secs(NEVER_TIMEOUT)
               /\ waitStart + interval
                     <= Max(now, NextTimeout(rec[r], now)[1]))

\* after the timeout branch a record is dirty and not yet due, and the wait
\* armed ends before it is
C30_Witness ==
    \E r \in RecordIds :
       /\ pc = "recv"
       /\ last = "timeout"
       /\ rec[r].dirty
       /\ ~CanUpdate(rec[r], now)
       /\ NextTimeout(rec[r], now) # None
       /\ now < NextTimeout(rec[r], now)[1]
       /\ waitStart + interval <= NextTimeout(rec[r], now)[1]

\* record r is clean and holds the last in-scope address received, after an
\* update() that did not fail and with no change since
Converged(r) ==
    /\ ~rec[r].dirty
    /\ rec[r].addr = lastIn[r]
    /\ hist[r].tried # None
    /\ ~hist[r].failed
    /\ ~hist[r].changed
    /\ cur # Some(r)

\* C31: once the events have stopped and the server accepts, every record
\* that received an in-scope address becomes clean and stays so, and the
\* address last sent for its name, or found on the server by the query, is
\* the last in-scope address received for its interface; so it is when
\* several records are dirty at once.
C31_Convergence ==
    /\ \A r \in RecordIds : (lastIn[r] # None) ~> Converged(r)
    /\ [][\A r \in RecordIds :
             Converged(r) => (Converged(r)' \/ hist'[r].changed)]_vars
    /\ [](\A r \in RecordIds :
            (Converged(r) /\ updated = <<r>> /\ calls # <<>>) =>
               /\ calls[1].primary
               /\ calls[1].name = Name(r)[1]
               /\ Some(calls[1].addr) = lastIn[r]
               /\ calls[1].result = Some("ok")
               /\ \/ calls[1].answer = "exact"
                  \/ calls[1].sent = <<"QUERY", "DELETE", "APPEND">>)

\* both records were dirty at once before the first wake-up, the first one
\* after two changes of its address; the first was served by one wake-up,
\* the second by a later one, and both have converged
C31_Witness ==
    /\ \A r \in RecordIds : lastIn[r] # None /\ Converged(r)
    /\ burst[1] >= 2
    /\ burst[2] >= 1
    /\ updated = <<2>>
    /\ pc = "recv"

\* C32: an event that changes nothing does not postpone a pending update:
\* with a record dirty, the wait armed after such an event ends no later than
\* the wait it interrupted, so that update() is invoked within a bounded
\* delay of the instant the record became eligible, however many such
\* events arrive.
C32_NotPostponed ==
    [][(RecvEvent /\ Dirty # {} /\ \A r \in RecordIds : ~ret'[r]) =>
          waitStart' + interval' <= waitStart + interval]_vars

\* the event e is the address that record r of its interface holds
Holds(r, e) == Task(r).interface = e.iface /\ rec[r].addr = Some(e.addr)

\* C33: an event that re-emits the address a record holds leaves the record
\* as it was and returns false; when every record of the interface holds it,
\* no record becomes dirty, the wait interval is not changed and no call is
\* started; update() is invoked on a record only after an event changed it
\* or its update() failed, never because of the re-emission.
C33_RestartIdempotent ==
    /\ [][RecvEvent =>
            /\ \A r \in RecordIds :
                  Holds(r, chan[1]) =>
                     /\ rec'[r] = rec[r]
                     /\ hist'[r] = hist[r]
                     /\ ~ret'[r]
            /\ (\A r \in RecordIds :
                   Task(r).interface = chan[1].iface => Holds(r, chan[1])) =>
                  /\ rec' = rec
                  /\ interval' = interval
                  /\ pc' = "recv"
                  /\ cur' = cur]_vars
    /\ [][\A r \in RecordIds :
             Attempted(r) => (hist[r].changed \/ hist[r].failed)]_vars

\* the cycle has started again and its dump has re-emitted the address that
\* record 1 holds, published by the one update() so far: the event is
\* consumed, the record is clean and the loop waits without a deadline
C33_Witness ==
    /\ pc = "recv"
    /\ last = "event"
    /\ ev = Some([iface |-> Task(1).interface, addr |-> A5])
    /\ rec[1] = [addr |-> Some(A5), dirty |-> FALSE,
                 update_tried |-> hist[1].tried]
    /\ Settled(1)
    /\ interval = from_secs(NEVER_TIMEOUT)
    /\ lpc = "live"
    /\ chan = <<>>
    /\ nEnv = MaxBudget

=============================================================================
